---- MODULE Spec2Model ----
(***************************************************************************)
(* A state-machine model of the SourceIO host-integration layer:           *)
(*   - VRGeneric.create_nodes      (vr_generic.py)                         *)
(*   - import_materials            (import_mdl.py)                         *)
(*   - import_model                (import_mdl.py)                         *)
(*   - create_flex_drivers         (import_mdl.py)                         *)
(* Numbers that the code keeps as floats are modelled as exact rationals    *)
(* [n, d] in lowest terms (d > 0); IEEE nan is the value NaN.               *)
(***************************************************************************)
EXTENDS Integers, Sequences, FiniteSets, TLC

(***************************************************************************)
(* Exact rational arithmetic.                                              *)
(***************************************************************************)
RECURSIVE GCD(_, _)
GCD(a, b) == IF b = 0 THEN a ELSE GCD(b, a % b)

\* n/d in lowest terms with a positive denominator (d # 0).
Rat(n, d) ==
    LET s == IF d < 0 THEN -1 ELSE 1
        g == GCD(IF n < 0 THEN -n ELSE n, IF d < 0 THEN -d ELSE d)
    IN  [n |-> (s * n) \div g, d |-> (s * d) \div g]

I(k) == [n |-> k, d |-> 1]
RAdd(a, b) == Rat(a.n * b.d + b.n * a.d, a.d * b.d)
RSub(a, b) == Rat(a.n * b.d - b.n * a.d, a.d * b.d)
RMul(a, b) == Rat(a.n * b.n, a.d * b.d)
RLt(a, b) == a.n * b.d < b.n * a.d
RLe(a, b) == a.n * b.d <= b.n * a.d

RECURSIVE RSum(_)
RSum(s) == IF s = << >> THEN I(0) ELSE RAdd(Head(s), RSum(Tail(s)))

(***************************************************************************)
(* Strings are sequences of one-character strings, so that slicing,        *)
(* concatenation and length are what Python computes.                      *)
(***************************************************************************)
\* the [-63:] of the name slices
NameLimit == 63

\* s[-63:]
Last63(s) == IF Len(s) <= NameLimit THEN s ELSE SubSeq(s, Len(s) - NameLimit + 1, Len(s))

\* index of the last occurrence of character c in s, 0 when there is none
RECURSIVE LastIndex(_, _)
LastIndex(s, c) ==
    IF s = << >> THEN 0
    ELSE IF s[Len(s)] = c THEN Len(s)
    ELSE LastIndex(SubSeq(s, 1, Len(s) - 1), c)

\* Path(s).stem: the last path component without its last suffix
Stem(s) ==
    LET b == SubSeq(s, LastIndex(s, "/") + 1, Len(s))
        k == LastIndex(b, ".")
    IN  IF 1 < k /\ k < Len(b) THEN SubSeq(b, 1, k - 1) ELSE b

\* k copies of character c
Pad(c, k) == [x \in 1..k |-> c]

(***************************************************************************)
(* The parsed model files and the content they refer to                    *)
(***************************************************************************)
VARIABLES
    files,          \* the model files that can be imported: Seq of mdl records
    content,        \* material files the content manager can find: set of <<path, name>>
    unknown_shader  \* names of the material files whose shader the loader does not know

VARIABLES
    materials,      \* bpy.data.materials: name -> [loaded, builds]
    find_calls,     \* content_manager.find_material calls, per material name
    loaders,        \* Source1MaterialLoader objects constructed, per host name
    bvlg,           \* the class flag set by Source1ShaderBase.use_bvlg
    mat_imports     \* number of import_materials calls made

materialVars == <<materials, find_calls, loaders, bvlg, mat_imports>>

fileVars == <<files, content, unknown_shader>>

VARIABLES
    objects,        \* bpy.data.objects, in creation order: Seq of object records
    meshes,         \* bpy.data.meshes, in creation order: Seq of mesh records
    texts,          \* bpy.data.texts: Seq of [name, defs]
    container,      \* the Source1ModelContainer returned by the last import_model
    call,           \* the arguments and outcome of the last import_model call
    blend_log,      \* the balance arrays of the last call, one entry per paired flex
    imports,        \* number of import_model calls made
    requests        \* the import_model calls still to be made: Seq of [file, opts]

hostVars == <<objects, meshes, texts, container, call, blend_log, imports, requests>>

VARIABLES
    mat_call        \* the arguments of the last import_materials call

(***************************************************************************)
(* VRGeneric (source 2 shader 'vr_standard.vfx')                           *)
(***************************************************************************)
VARIABLES
    vr_pc,          \* "ready" before create_nodes, "done" after it returned
    base_result,    \* what Source2ShaderBase.create_nodes returns
    color,          \* g_vColorTint, four channels
    alpha_test,     \* F_ALPHA_TEST
    metalness,      \* F_METALNESS_TEXTURE
    translucent,    \* F_TRANSLUCENT
    glossiness,     \* g_vGlossinessRange
    nodes,          \* node tree of the material: name -> node type
    links,          \* set of <<from node, output, to node, input>>
    defaults,       \* input default values: <<node, input>> -> value
    blend_type,     \* blend_type of the mix node, "" while there is none
    blend_method,   \* bpy_material.blend_method
    shadow_method   \* bpy_material.shadow_method

shaderVars == <<vr_pc, base_result, color, alpha_test, metalness, translucent,
                glossiness, nodes, links, defaults, blend_type, blend_method,
                shadow_method>>

\* np.ones(4): the default of g_vColorTint
White == <<I(1), I(1), I(1), I(1)>>

\* Values a tint channel is drawn from: 0-1 range and 0-255 range colours.
Tints == [1..4 -> {I(0), Rat(3, 4), I(1), I(255)}]

BaseResults == {"UNKNOWN", "LOADED", "NONE"}
Flags == {0, 1}

\* an empty node tree
NoNodes == [x \in {} |-> ""]
NoDefaults == [x \in {} |-> I(0)]

\* self.create_node(type, name)
create_node(ns, name, type) == [x \in DOMAIN ns \cup {name} |-> IF x = name THEN type ELSE ns[x]]

\* assignment to <socket>.default_value
set_default(ds, key, val) == [x \in DOMAIN ds \cup {key} |-> IF x = key THEN val ELSE ds[x]]

\* the test that decides whether the tint is applied
tint_applies(c) == c[1] # I(1) /\ c[2] # I(1) /\ c[3] # I(1)

\* list(np.divide(color, 255)) when sum(color) > 3, the tint itself otherwise
tint_value(c) ==
    IF RLt(I(3), RSum(c)) THEN [i \in 1..4 |-> RMul(c[i], Rat(1, 255))] ELSE c

\* (mutation: the alpha-test flag is forgotten)
alpha_to_opacity_translucent_only == translucent # 0

\* the flag test of the alpha wiring
alpha_to_opacity == translucent # 0 \/ alpha_test # 0

VRGeneric_create_nodes ==
    /\ vr_pc = "ready"
    /\ vr_pc' = "done"
    /\ IF base_result \in {"UNKNOWN", "LOADED"}
       THEN UNCHANGED <<nodes, links, defaults, blend_type, blend_method, shadow_method>>
       ELSE LET n1 == create_node(nodes, "output", "ShaderNodeOutputMaterial")
                n2 == create_node(n1, "vr_standard.vfx", "ShaderNodeBsdfPrincipled")
                l1 == links \cup {<<"vr_standard.vfx", "BSDF", "output", "Surface">>}
                d1 == set_default(defaults, <<"vr_standard.vfx", "Roughness">>, glossiness[2])
                d2 == set_default(d1, <<"vr_standard.vfx", "Specular">>, glossiness[1])
                n3 == create_node(n2, "albedo", "ShaderNodeTexImage")
                mix == tint_applies(color)
                n4 == IF mix THEN create_node(n3, "color_mix", "ShaderNodeMixRGB") ELSE n3
                l2 == IF mix
                      THEN l1 \cup {<<"albedo", "Color", "color_mix", "Color1">>,
                                    <<"color_mix", "Color", "vr_standard.vfx", "Base Color">>}
                      ELSE l1 \cup {<<"albedo", "Color", "vr_standard.vfx", "Base Color">>}
                d3 == IF mix
                      THEN set_default(set_default(d2, <<"color_mix", "Color2">>, tint_value(color)),
                                       <<"color_mix", "Fac">>, <<I(1)>>)
                      ELSE d2
                l3 == IF alpha_to_opacity
                      THEN l2 \cup {<<"albedo", "Alpha", "vr_standard.vfx", "Alpha">>}
                      ELSE IF metalness # 0
                           THEN l2 \cup {<<"albedo", "Alpha", "vr_standard.vfx", "Metallic">>}
                           ELSE l2
                n5 == create_node(n4, "normal", "ShaderNodeTexImage")
                n6 == create_node(n5, "normalmap", "ShaderNodeNormalMap")
                l4 == l3 \cup {<<"normal", "Color", "normalmap", "Color">>,
                               <<"normalmap", "Normal", "vr_standard.vfx", "Normal">>}
            IN  /\ nodes' = n6
                /\ links' = l4
                /\ defaults' = d3
                /\ blend_type' = IF mix THEN "MULTIPLY" ELSE blend_type
                /\ blend_method' = IF alpha_to_opacity THEN "HASHED" ELSE blend_method
                /\ shadow_method' = IF alpha_to_opacity THEN "HASHED" ELSE shadow_method
    /\ UNCHANGED <<base_result, color, alpha_test, metalness, translucent, glossiness>>
    /\ UNCHANGED <<fileVars, materialVars, mat_call, hostVars>>


(***************************************************************************)
(* import_materials                                                        *)
(***************************************************************************)
\* how many import_materials calls a behaviour makes
MaxMatImports == 2

\* the host name of a material in import_materials (lines 464-467)
material_host_name(mdl, name, unique_material_names) ==
    IF unique_material_names
    THEN Last63(Stem(mdl.name) \o <<"_">> \o Last63(name))
    ELSE Last63(name)

\* (mutation: the skip of loaded materials is lost)
already_loaded_never(mats, mat_name) == FALSE

\* bpy.data.materials.get(name, False) and its 'source1_loaded' flag
already_loaded(mats, mat_name) == mat_name \in DOMAIN mats /\ mats[mat_name].loaded

\* a counter keyed by name
bump(f, k) == [x \in DOMAIN f \cup {k} |-> IF x \in DOMAIN f THEN (IF x = k THEN f[x] + 1 ELSE f[x]) ELSE 1]

\* lines 477-481: try the material paths in order until the file is found;
\* [found, calls] with calls the number of find_material calls made
RECURSIVE find_material_path(_, _, _, _)
find_material_path(paths, name, cont, calls) ==
    IF paths = << >> THEN [found |-> FALSE, calls |-> calls]
    ELSE IF <<Head(paths), name>> \in cont THEN [found |-> TRUE, calls |-> calls + 1]
    ELSE find_material_path(Tail(paths), name, cont, calls + 1)

\* n increments of counter f at key k
RECURSIVE bump_n(_, _, _)
bump_n(f, k, n) == IF n = 0 THEN f ELSE bump_n(bump(f, k), k, n - 1)

\* Source1MaterialLoader(material_path, mat_name).create_material(): gets or
\* creates the host material and rebuilds it; flagged tells whether the
\* loader marks it 'source1_loaded' (it does unless the shader is unknown)
create_material(mats, mat_name, flagged) ==
    [x \in DOMAIN mats \cup {mat_name} |->
        IF x = mat_name
        THEN [loaded |-> flagged,
              builds |-> IF x \in DOMAIN mats THEN mats[x].builds + 1 ELSE 1]
        ELSE mats[x]]

\* the body of the loop of import_materials for the materials i.. of mdl;
\* st = [materials, find_calls, loaders, bvlg]
RECURSIVE import_materials_loop(_, _, _, _, _, _, _)
import_materials_loop(i, mdl, unique_material_names, use_bvlg, unknown, cont, st) ==
    IF i > Len(mdl.materials) THEN st
    ELSE LET name == mdl.materials[i]
             mat_name == material_host_name(mdl, name, unique_material_names)
         IN  IF already_loaded(st.materials, mat_name)
             THEN import_materials_loop(i + 1, mdl, unique_material_names, use_bvlg, unknown, cont, st)
             ELSE LET r == find_material_path(mdl.materials_paths, name, cont, 0)
                      fc == bump_n(st.find_calls, name, r.calls)
                      st2 == IF r.found
                             THEN [materials |-> create_material(st.materials, mat_name, name \notin unknown),
                                   find_calls |-> fc,
                                   loaders |-> bump(st.loaders, mat_name),
                                   bvlg |-> use_bvlg]
                             ELSE [st EXCEPT !.find_calls = fc]
                  IN  import_materials_loop(i + 1, mdl, unique_material_names, use_bvlg, unknown, cont, st2)

import_materials(f) ==
    /\ mat_imports < MaxMatImports
    /\ \E unique_material_names \in BOOLEAN, use_bvlg \in BOOLEAN :
          LET st == import_materials_loop(1, files[f], unique_material_names, use_bvlg,
                        unknown_shader, content,
                        [materials |-> materials, find_calls |-> find_calls,
                         loaders |-> loaders, bvlg |-> bvlg])
          IN  /\ materials' = st.materials
              /\ find_calls' = st.find_calls
              /\ loaders' = st.loaders
              /\ bvlg' = st.bvlg
              /\ mat_call' = [file |-> f, unique_material_names |-> unique_material_names]
    /\ mat_imports' = mat_imports + 1
    /\ UNCHANGED <<fileVars, shaderVars, hostVars>>

(***************************************************************************)
(* The host scene (bpy.data): helpers                                      *)
(***************************************************************************)
\* index of the element of seq named name (names are unique), 0 when absent:
\* bpy.data.<collection>.get(name)
find_by_name(seq, name) ==
    IF \E i \in 1..Len(seq) : seq[i].name = name
    THEN CHOOSE i \in 1..Len(seq) : seq[i].name = name
    ELSE 0

names_of(seq) == {seq[i].name : i \in 1..Len(seq)}

Suffix(k) == <<".", "0", "0", <<"1", "2", "3", "4", "5", "6", "7", "8", "9">>[k]>>

\* the host gives a new datablock (object, mesh, bone, vertex group, shape
\* key) a name no other one of its collection has: name, name.001, name.002
unique_name(used, name) ==
    IF name \notin used THEN name
    ELSE name \o Suffix(CHOOSE k \in 1..9 :
                            /\ name \o Suffix(k) \notin used
                            /\ \A j \in 1..(k - 1) : name \o Suffix(j) \in used)

\* get_slice(data, start, count): data[start:start + count]
get_slice(data, start, count) ==
    SubSeq(data, start + 1, IF start + count <= Len(data) THEN start + count ELSE Len(data))

\* data[index] for an index array (numpy fancy indexing: a copy)
take(data, index) == [k \in 1..Len(index) |-> data[index[k] + 1]]

\* seq[::-1], np.flip
reversed(seq) == [k \in 1..Len(seq) |-> seq[Len(seq) + 1 - k]]

\* the custom properties import_model and create_armature set on an object
NoProps ==
    [skin_groups |-> << >>, active_skin |-> "", model_type |-> "",
     unique_material_names |-> FALSE, prop_path |-> << >>, MODE |-> ""]

NoObject ==
    [name |-> << >>, type |-> "", data |-> 0, modifiers |-> << >>, parent |-> 0,
     vertex_groups |-> << >>, props |-> NoProps, bones |-> << >>, constraints |-> << >>]

NoMesh ==
    [name |-> << >>, verts |-> << >>, loops |-> << >>, material_index |-> << >>,
     materials |-> << >>, uv_layers |-> << >>, shape_keys |-> << >>,
     flex_controllers |-> << >>]

NoContainer == [armature |-> 0, objects |-> << >>, bodygroups |-> << >>, attachments |-> << >>]

(***************************************************************************)
(* create_armature                                                         *)
(***************************************************************************)
\* lines 60-63: one edit bone per bone, named bone.name[-63:]
RECURSIVE new_edit_bones(_, _)
new_edit_bones(bl_bones, todo) ==
    IF todo = << >> THEN bl_bones
    ELSE new_edit_bones(
            Append(bl_bones, [name |-> unique_name(names_of(bl_bones), Last63(Head(todo).name)),
                              parent |-> 0,
                              matrix |-> <<0>>]),
            Tail(todo))

\* lines 65-68: bl_bone.parent = bl_bones[s_bone.parent_bone_index]
set_parents(bl_bones, mdl) ==
    [k \in 1..Len(bl_bones) |->
        IF mdl.bones[k].parent_bone_index # -1
        THEN [bl_bones[k] EXCEPT !.parent =
                 IF mdl.bones[k].parent_bone_index >= 0
                 THEN mdl.bones[k].parent_bone_index + 1
                 ELSE Len(bl_bones) + mdl.bones[k].parent_bone_index + 1]
        ELSE bl_bones[k]]

\* lines 72-79: the pose pass, bone n of mdl.bones onwards.  A matrix is the
\* sequence of the local transforms multiplied, 0 standing for the matrix a
\* bone has before the pass; n stands for
\* Translation(position_n * scale) @ rotation_n.
RECURSIVE pose_pass(_, _, _)
pose_pass(bl_bones, mdl, n) ==
    IF n > Len(mdl.bones) THEN bl_bones
    ELSE LET k == find_by_name(bl_bones, Last63(mdl.bones[n].name))
             p == bl_bones[k].parent
             mat == IF p # 0 THEN bl_bones[p].matrix \o <<n>> ELSE <<n>>
         IN  pose_pass([bl_bones EXCEPT ![k].matrix = mat], mdl, n + 1)

\* create_armature(mdl, scale): the new armature object
create_armature(objs, mdl) ==
    [NoObject EXCEPT
        !.name = unique_name(names_of(objs), Stem(mdl.name) \o <<"_", "A", "R", "M">>),
        !.type = "ARMATURE",
        !.props = [NoProps EXCEPT !.MODE = "SourceIO"],
        !.bones = pose_pass(set_parents(new_edit_bones(<< >>, mdl.bones), mdl), mdl, 1)]

(***************************************************************************)
(* import_model: one sub-model                                             *)
(***************************************************************************)
\* f'{body_part.name}_{model.name}'
mesh_name_of(body_part, model) == body_part.name \o <<"_">> \o model.name

\* the name under which a new mesh datablock is created (lines 133, 139)
mesh_data_name(mdl, mesh_name) == mesh_name \o <<"_", "M", "E", "S", "H">>

\* the name under which an existing mesh datablock is looked up (line 123)
mesh_lookup_name(mdl, mesh_name) ==
    mdl.name \o <<"_">> \o mesh_name \o <<"_", "M", "E", "S", "H">>

\* vector * scale
scaled(v, scale) == [k \in 1..Len(v) |-> v[k] * scale]

\* (mutation: the vertical flip is lost)
flip_v_not(uv) == uv

\* uvs[:, 1] = 1 - uvs[:, 1]
flip_v(uv) == <<uv[1], RSub(I(1), uv[2])>>

\* (mutation: the prefixed name is not cut to the last 63 characters)
slot_material_name_uncut(mdl, name, unique_material_names) ==
    IF unique_material_names
    THEN Stem(mdl.name) \o <<"_">> \o Last63(name)
    ELSE Last63(name)

\* lines 174-178: the name under which import_model asks for the material
slot_material_name(mdl, name, unique_material_names) ==
    IF unique_material_names
    THEN Last63(Stem(mdl.name) \o <<"_">> \o Last63(name))
    ELSE Last63(name)

\* np.unique(material_indices_array): the ids in ascending order
RECURSIVE sorted_seq(_)
sorted_seq(S) ==
    IF S = {} THEN << >>
    ELSE LET m == CHOOSE x \in S : \A y \in S : x <= y
         IN  <<m>> \o sorted_seq(S \ {m})

unique_ids(arr) == sorted_seq({arr[k] : k \in 1..Len(arr)})

\* get_material(mat_name, mesh_obj): the slot of the material in the mesh,
\* appended when the mesh has none of that name
slot_of(slots, mat_name) ==
    IF \E k \in 1..Len(slots) : slots[k] = mat_name
    THEN (CHOOSE k \in 1..Len(slots) : slots[k] = mat_name) - 1
    ELSE Len(slots)

get_material_slots(slots, mat_name) ==
    IF \E k \in 1..Len(slots) : slots[k] = mat_name THEN slots ELSE Append(slots, mat_name)

\* get_material creates the host material when there is none of that name
get_material_host(mats, mat_name) ==
    IF mat_name \in DOMAIN mats THEN mats
    ELSE [x \in DOMAIN mats \cup {mat_name} |->
             IF x = mat_name THEN [loaded |-> FALSE, builds |-> 0] ELSE mats[x]]

\* lines 172-179: the slots after the loop over the material ids
RECURSIVE assign_slots(_, _, _, _)
assign_slots(slots, ids, mdl, unique_material_names) ==
    IF ids = << >> THEN slots
    ELSE assign_slots(
            get_material_slots(slots,
                slot_material_name(mdl, mdl.materials[Head(ids) + 1], unique_material_names)),
            Tail(ids), mdl, unique_material_names)

RECURSIVE assign_host_materials(_, _, _, _)
assign_host_materials(mats, ids, mdl, unique_material_names) ==
    IF ids = << >> THEN mats
    ELSE assign_host_materials(
            get_material_host(mats,
                slot_material_name(mdl, mdl.materials[Head(ids) + 1], unique_material_names)),
            Tail(ids), mdl, unique_material_names)

\* line 181: material_remapper[material_indices_array[::-1]]
polygon_slots(slots, material_indices, mdl, unique_material_names) ==
    LET r == reversed(material_indices)
    IN  [k \in 1..Len(r) |->
            slot_of(slots, slot_material_name(mdl, mdl.materials[r[k] + 1], unique_material_names))]

\* lines 186-189: the primary UV layer
primary_uv_layer(vertices, vertex_indices) ==
    LET uvs == [k \in 1..Len(vertices) |-> flip_v(vertices[k].uv)]
    IN  [name |-> "UVMap", uv |-> take(uvs, vertex_indices)]

\* lines 191-198: one UV layer per entry of vvd.extra_data
extra_uv_layers(mdl, model, vertex_indices) ==
    [e \in 1..Len(mdl.extra_data) |->
        LET extra_uv == take(get_slice(mdl.extra_data[e].uv, model.vertex_offset, model.vertex_count),
                             model.vtx_vertices)
            flipped == [k \in 1..Len(extra_uv) |-> flip_v(extra_uv[k])]
        IN  [name |-> mdl.extra_data[e].name, uv |-> take(flipped, vertex_indices)]]

\* line 201: one vertex group per bone, requested under bone.name
RECURSIVE new_vertex_groups(_, _)
new_vertex_groups(groups, bones) ==
    IF bones = << >> THEN groups
    ELSE new_vertex_groups(
            Append(groups, [name |-> unique_name(names_of(groups), Head(bones).name),
                            weights |-> [x \in {} |-> I(0)]]),
            Tail(bones))

\* weight_groups[bone_name]: the dict keeps the group of the last bone of a name
weight_group_of(mdl, bone_name) ==
    CHOOSE k \in 1..Len(mdl.bones) :
        /\ mdl.bones[k].name = bone_name
        /\ \A j \in (k + 1)..Len(mdl.bones) : mdl.bones[j].name # bone_name

\* group.add([n], weight, 'REPLACE')
group_add(group, n, weight) ==
    [group EXCEPT !.weights =
        [x \in DOMAIN group.weights \cup {n} |-> IF x = n THEN weight ELSE group.weights[x]]]

\* lines 203-207: vertex n (0-based), influence slot s onwards
RECURSIVE add_weights(_, _, _, _, _)
add_weights(groups, mdl, vertices, n, s) ==
    IF n >= Len(vertices) THEN groups
    ELSE IF s > Len(vertices[n + 1].bone_id) THEN add_weights(groups, mdl, vertices, n + 1, 1)
    ELSE LET weight == vertices[n + 1].weight[s]
             g == weight_group_of(mdl, mdl.bones[vertices[n + 1].bone_id[s] + 1].name)
         IN  IF RLt(I(0), weight)
             THEN add_weights([groups EXCEPT ![g] = group_add(groups[g], n, weight)],
                              mdl, vertices, n, s + 1)
             ELSE add_weights(groups, mdl, vertices, n, s + 1)

(***************************************************************************)
(* import_model: shape keys of one sub-model (lines 209-245)               *)
(***************************************************************************)
\* IEEE nan, as numpy produces it for 0 / 0
NaN == [n |-> 0, d |-> 0]
IsNaN(a) == a.d = 0
RDiv(a, b) == Rat(a.n * b.d, a.d * b.n)

\* np.clip(a, 0, 1)
clip01(a) == IF IsNaN(a) THEN NaN ELSE IF RLt(a, I(0)) THEN I(0) ELSE IF RLt(I(1), a) THEN I(1) ELSE a

\* model_vertices.max() - model_vertices.min(): over every coordinate of
\* every vertex
extent(vs) ==
    LET S == {vs[k][c] : k \in 1..Len(vs), c \in 1..3}
    IN  (CHOOSE x \in S : \A y \in S : y <= x) - (CHOOSE x \in S : \A y \in S : x <= y)

\* line 232
balance_width(vs) == RMul(I(extent(vs)), RSub(I(1), RDiv(Rat(993, 10), I(100))))

\* line 233 for one vertex: np.clip((-x / balance_width / 2) + 0.5, 0, 1);
\* a zero width gives -inf, +inf or nan before the clip
balance_of(x, width) ==
    IF width.n = 0
    THEN IF x = 0 THEN NaN ELSE IF x > 0 THEN I(0) ELSE I(1)
    ELSE clip01(RAdd(RDiv(RDiv(I(-x), width), I(2)), Rat(1, 2)))

\* line 238
partner_balance(b) == IF IsNaN(b) THEN NaN ELSE RSub(I(1), b)

\* (flex_delta * weight[:, None]) + model_vertices for one vertex
blend(delta, weight, base) ==
    [c \in 1..3 |->
        IF IsNaN(weight) THEN NaN ELSE RAdd(RMul(I(delta[c]), weight), I(base[c]))]

NoDriver == [type |-> "", expression |-> << >>, variables |-> << >>]

\* key_blocks.get(name, None) or mesh_obj.shape_key_add(name=name): the keys
\* with a key of that name, a new key starting from the mesh vertices
with_shape_key(keys, name, verts) ==
    IF find_by_name(keys, name) # 0 THEN keys
    ELSE Append(keys, [name |-> unique_name(names_of(keys), name),
                       co |-> [k \in 1..Len(verts) |-> [c \in 1..3 |-> I(verts[k][c])]],
                       driver |-> NoDriver])

\* shape_key.data.foreach_set("co", ...)
set_co(keys, name, co) == [keys EXCEPT ![find_by_name(keys, name)].co = co]

\* lines 235-240: both keys of a paired flex get their coordinates, the
\* partner with p_balance = 1 - balance
paired_coordinates(keys, log, flex_name, partner_name, flex_delta, model_vertices, balance) ==
    [keys |-> set_co(set_co(keys, flex_name,
                            [k \in 1..Len(model_vertices) |->
                                blend(flex_delta[k], balance[k], model_vertices[k])]),
                     partner_name,
                     [k \in 1..Len(model_vertices) |->
                         blend(flex_delta[k], partner_balance(balance[k]), model_vertices[k])]),
     log |-> Append(log, [flex |-> flex_name, partner |-> partner_name,
                          balance |-> balance,
                          p_balance |-> [k \in 1..Len(balance) |-> partner_balance(balance[k])]])]

\* lines 224-245 once flex_delta and model_vertices are known
flex_coordinates(r, mdl, flex_desc, flex_name, create_drivers, verts, flex_delta, model_vertices) ==
    IF create_drivers /\ flex_desc.partner_index # 0
    THEN paired_coordinates(
            with_shape_key(with_shape_key(r.keys, mdl.flex_names[flex_desc.partner_index + 1], verts),
                           flex_name, verts),
            r.log, flex_name, mdl.flex_names[flex_desc.partner_index + 1],
            flex_delta, model_vertices,
            [k \in 1..Len(model_vertices) |->
                balance_of(model_vertices[k][1], balance_width(model_vertices))])
    ELSE [keys |-> set_co(with_shape_key(r.keys, flex_name, verts), flex_name,
                          [k \in 1..Len(model_vertices) |->
                              blend(flex_delta[k], I(1), model_vertices[k])]),
          log |-> r.log]

\* lines 217-245 for one (flex_name, flex_desc); r = [keys, log]
apply_flex(r, mdl, model, flex_desc, scale, create_drivers, verts) ==
    flex_coordinates(r, mdl, flex_desc, mdl.flex_names[flex_desc.flex_desc_index + 1],
        create_drivers, verts,
        [k \in 1..Len(model.vtx_vertices) |->
            scaled(take(get_slice(mdl.vertex_cache[mdl.flex_names[flex_desc.flex_desc_index + 1]],
                                  model.vertex_offset, model.vertex_count),
                        model.vtx_vertices)[k], scale)],
        [k \in 1..Len(model.vtx_vertices) |->
            scaled(take(get_slice(mdl.vertices, model.vertex_offset, model.vertex_count),
                        model.vtx_vertices)[k].vertex, scale)])

RECURSIVE apply_flexes(_, _, _, _, _, _, _)
apply_flexes(r, mdl, model, flexes, scale, create_drivers, verts) ==
    IF flexes = << >> THEN r
    ELSE apply_flexes(apply_flex(r, mdl, model, Head(flexes), scale, create_drivers, verts),
                      mdl, model, Tail(flexes), scale, create_drivers, verts)

(***************************************************************************)
(* create_flex_drivers                                                     *)
(***************************************************************************)
\* s.replace(' ', '_')
spaces_to_underscores(s) == [k \in 1..Len(s) |-> IF s[k] = " " THEN "_" ELSE s[k]]

\* s.split('_')
RECURSIVE split_underscore(_, _)
split_underscore(s, part) ==
    IF s = << >> THEN <<part>>
    ELSE IF Head(s) = "_" THEN <<part>> \o split_underscore(Tail(s), << >>)
    ELSE split_underscore(Tail(s), Append(part, Head(s)))

\* f'{flex_name}_driver'.replace(' ', '_')
driver_name_of(flex_name) ==
    spaces_to_underscores(flex_name \o <<"_", "d", "r", "i", "v", "e", "r">>)

\* (mutation: the expression keeps the spaces of the flex name)
driver_expression_with_spaces(flex_name) ==
    flex_name \o <<"_", "d", "r", "i", "v", "e", "r">>
        \o <<"(", "o", "b", "j", "_", "d", "a", "t", "a", ")">>

\* f"{flex_name.replace(' ', '_')}_driver(obj_data)"
driver_expression(flex_name) ==
    spaces_to_underscores(flex_name) \o <<"_", "d", "r", "i", "v", "e", "r">>
        \o <<"(", "o", "b", "j", "_", "d", "a", "t", "a", ")">>

\* driver_name in globals(): the globals of import_mdl.py are its imports, its
\* logger objects and its functions (collect_full_material_names,
\* create_armature, import_model, create_flex_drivers, create_attachments,
\* import_materials, import_animations); a driver name ends in '_driver'
in_globals(driver_name) ==
    driver_name \in {<<"c", "r", "e", "a", "t", "e", "_", "a", "r", "m", "a", "t", "u", "r", "e">>,
                     <<"i", "m", "p", "o", "r", "t", "_", "m", "o", "d", "e", "l">>}

NoController == [name |-> << >>, stereo |-> FALSE, value_min |-> 0, value_max |-> 0, mode |-> 0]

\* next(filter(lambda a: a.name == name, mdl.flex_controllers)): 0 stands for
\* StopIteration
first_controller(mdl, name) ==
    IF \E k \in 1..Len(mdl.flex_controllers) : mdl.flex_controllers[k].name = name
    THEN CHOOSE k \in 1..Len(mdl.flex_controllers) :
            /\ mdl.flex_controllers[k].name = name
            /\ \A j \in 1..(k - 1) : mdl.flex_controllers[j].name # name
    ELSE 0

\* cont.set_from_controller(controller)
set_from_controller(cont, controller) ==
    [cont EXCEPT !.value_min = controller.min, !.value_max = controller.max]

\* lines 282-298: the controller cont (at index c) of a flex_ui_controller
\* gets its name and range; left, right, single: the controllers looked up
name_ui_controller(conts, c, mdl, ui, left, right, single) ==
    IF ui.stereo
    THEN IF left = 0 \/ right = 0 THEN [conts |-> conts, error |-> "StopIteration"]
         ELSE IF \/ mdl.flex_controllers[left].max # mdl.flex_controllers[right].max
                 \/ mdl.flex_controllers[left].min # mdl.flex_controllers[right].min
         THEN [conts |-> [conts EXCEPT ![c].stereo = TRUE, ![c].name = ui.name],
               error |-> "AssertionError"]
         ELSE [conts |-> [conts EXCEPT ![c] = set_from_controller(
                             [NoController EXCEPT !.stereo = TRUE, !.name = ui.name],
                             mdl.flex_controllers[left])],
               error |-> ""]
    ELSE IF single = 0 THEN [conts |-> conts, error |-> "StopIteration"]
         ELSE [conts |-> [conts EXCEPT ![c] = set_from_controller(
                             [NoController EXCEPT !.name = ui.name],
                             mdl.flex_controllers[single])],
               error |-> ""]

\* lines 274-280: the n-way controller of a flex_ui_controller; multi: the
\* controller looked up
nway_ui_controller(conts, c, mdl, ui, multi) ==
    IF multi = 0 THEN [conts |-> Append(conts, NoController), error |-> "StopIteration"]
    ELSE name_ui_controller(
            Append(conts, set_from_controller([NoController EXCEPT !.name = ui.nway_controller],
                                              mdl.flex_controllers[multi])),
            c, mdl, ui,
            first_controller(mdl, ui.left_controller),
            first_controller(mdl, ui.right_controller),
            first_controller(mdl, ui.controller))

\* lines 271-298 for one flex_ui_controller; r = [conts, error]
add_ui_controller(r, mdl, ui) ==
    IF ui.nway_controller # << >>
    THEN nway_ui_controller(Append(r.conts, NoController), Len(r.conts) + 1, mdl, ui,
                            first_controller(mdl, ui.nway_controller))
    ELSE name_ui_controller(Append(r.conts, NoController), Len(r.conts) + 1, mdl, ui,
                            first_controller(mdl, ui.left_controller),
                            first_controller(mdl, ui.right_controller),
                            first_controller(mdl, ui.controller))

RECURSIVE add_ui_controllers(_, _, _)
add_ui_controllers(r, mdl, uis) ==
    IF uis = << >> \/ r.error # "" THEN r
    ELSE add_ui_controllers(add_ui_controller(r, mdl, Head(uis)), mdl, Tail(uis))

\* (mutation: every fetch kind is taken as supported)
inputs_supported_always(inputs) == TRUE

\* lines 359-375: whether every input of a rule has a supported fetch kind
inputs_supported(inputs) ==
    \A k \in 1..Len(inputs) : inputs[k][2] \in {"fetch1", "2WAY1", "2WAY0", "NWAY", "DUE", "fetch2"}

\* lines 353-384: the function definitions of the compiled rules, rule k
\* onwards; r = [defs, error]
RECURSIVE rule_definitions(_, _, _)
rule_definitions(r, rules, k) ==
    IF k > Len(rules) \/ r.error # "" THEN r
    ELSE IF in_globals(driver_name_of(rules[k].name)) THEN rule_definitions(r, rules, k + 1)
    ELSE IF ~inputs_supported(rules[k].inputs) THEN [r EXCEPT !.error = "NotImplementedError"]
    ELSE rule_definitions(
            [r EXCEPT !.defs = Append(r.defs, [name |-> driver_name_of(rules[k].name),
                                               origin |-> "rule",
                                               flex |-> rules[k].name])],
            rules, k + 1)

\* flex_name not in all_exprs
has_rule(rules, flex_name) == \E k \in 1..Len(rules) : rules[k].name = flex_name

\* _parse_simple_flex(missing_flex_name) is not None
parse_simple_flex(conts, missing_flex_name) ==
    LET flexes == split_underscore(missing_flex_name, << >>)
    IN  \A k \in 1..Len(flexes) : flexes[k] \in names_of(conts)

\* the driver of lines 419-430
scripted_driver(flex_name, obj_id) ==
    [type |-> "SCRIPTED",
     expression |-> driver_expression(flex_name),
     variables |-> <<[name |-> "obj_data", id_type |-> "OBJECT", id |-> obj_id, data_path |-> "data"]>>]

\* lines 392-430 for shape key k, named flex_name
shape_key_driver(r, rules, obj_id, k, flex_name) ==
    IF has_rule(rules, flex_name)
    THEN [r EXCEPT !.keys[k].driver = scripted_driver(flex_name, obj_id)]
    ELSE IF parse_simple_flex(r.conts, flex_name)
    \* st.join(inputs) joins (name, 'fetch2') tuples
    THEN [r EXCEPT !.error = "TypeError"]
    ELSE [r EXCEPT !.conts = Append(r.conts, [NoController EXCEPT
                                       !.name = flex_name, !.mode = 1,
                                       !.value_min = 0, !.value_max = 1]),
                   !.defs = Append(r.defs, [name |-> spaces_to_underscores(flex_name)
                                                \o <<"_", "d", "r", "i", "v", "e", "r">>,
                                            origin |-> "controller",
                                            flex |-> flex_name]),
                   !.keys[k].driver = scripted_driver(flex_name, obj_id)]

\* lines 386-430: shape key k onwards; r = [keys, conts, defs, error]
RECURSIVE shape_key_drivers(_, _, _, _)
shape_key_drivers(r, rules, obj_id, k) ==
    IF k > Len(r.keys) \/ r.error # "" THEN r
    ELSE IF r.keys[k].name = <<"b", "a", "s", "e">> THEN shape_key_drivers(r, rules, obj_id, k + 1)
    ELSE shape_key_drivers(shape_key_driver(r, rules, obj_id, k, r.keys[k].name), rules, obj_id, k + 1)

\* lines 432-434: the driver script is written when nothing was raised;
\* s = [keys, conts, defs, error]
write_driver_file(me, mdl, txts, s) ==
    [mesh |-> [me EXCEPT !.shape_keys = s.keys, !.flex_controllers = s.conts],
     texts |-> IF s.error # "" THEN txts
               ELSE Append(txts, [name |-> unique_name(names_of(txts), mdl.name \o <<".", "p", "y">>),
                                  defs |-> s.defs]),
     error |-> s.error]

\* lines 386-434 after the rule definitions d = [defs, error]
drivers_after_rules(me, obj_id, mdl, txts, conts, d) ==
    IF d.error # ""
    THEN write_driver_file(me, mdl, txts,
            [keys |-> me.shape_keys, conts |-> conts, defs |-> d.defs, error |-> d.error])
    ELSE write_driver_file(me, mdl, txts,
            shape_key_drivers([keys |-> me.shape_keys, conts |-> conts, defs |-> d.defs,
                               error |-> ""],
                              mdl.flex_rules, obj_id, 1))

\* lines 353-434 after the controllers c = [conts, error]
drivers_after_controllers(me, obj_id, mdl, txts, c) ==
    IF c.error # ""
    THEN drivers_after_rules(me, obj_id, mdl, txts, c.conts, [defs |-> << >>, error |-> c.error])
    ELSE drivers_after_rules(me, obj_id, mdl, txts, c.conts,
            rule_definitions([defs |-> << >>, error |-> ""], mdl.flex_rules, 1))

\* create_flex_drivers(obj, mdl) on the mesh me of object obj_id;
\* [mesh, texts, error]
create_flex_drivers(me, obj_id, mdl, txts) ==
    IF me.shape_keys = << >> THEN [mesh |-> me, texts |-> txts, error |-> ""]
    ELSE drivers_after_controllers(me, obj_id, mdl, txts,
            add_ui_controllers([conts |-> me.flex_controllers, error |-> ""],
                               mdl, mdl.flex_ui_controllers))

(***************************************************************************)
(* create_attachments                                                      *)
(***************************************************************************)
\* lines 439-455, attachment k onwards; r = [objects, attachments]
RECURSIVE create_attachments(_, _, _, _)
create_attachments(r, mdl, armature, k) ==
    IF k > Len(mdl.attachments) THEN r
    ELSE LET attachment == mdl.attachments[k]
             empty == [NoObject EXCEPT
                          !.name = unique_name(names_of(r.objects), attachment.name),
                          !.type = "EMPTY",
                          !.constraints =
                              IF r.objects[armature].type = "ARMATURE"
                              THEN <<[type |-> "CHILD_OF", target |-> armature,
                                      subtarget |-> mdl.bones[attachment.parent_bone + 1].name]>>
                              ELSE << >>]
         IN  create_attachments([objects |-> Append(r.objects, empty),
                                 attachments |-> Append(r.attachments, Len(r.objects) + 1)],
                                mdl, armature, k + 1)

(***************************************************************************)
(* import_model                                                            *)
(***************************************************************************)
\* container.bodygroups[name].append(obj)
bodygroup_append(groups, name, obj) ==
    [x \in DOMAIN groups \cup {name} |->
        IF x = name THEN (IF x \in DOMAIN groups THEN Append(groups[x], obj) ELSE <<obj>>)
        ELSE groups[x]]

\* lines 145-149: the armature modifier and the parent of a skinned model
with_armature(ob, mdl, armature) ==
    IF ~mdl.static_prop
    THEN [ob EXCEPT
             !.modifiers = Append(@, [name |-> unique_name(names_of(@),
                                          <<"A", "r", "m", "a", "t", "u", "r", "e">>),
                                      type |-> "ARMATURE",
                                      object |-> armature]),
             !.parent = armature]
    ELSE ob

\* lines 152-153
with_import_props(ob, mdl, opts) ==
    [ob EXCEPT !.props.unique_material_names = opts.unique_material_names,
               !.props.prop_path = Stem(mdl.name)]

\* (mutation: the object is not filed under its body part)
container_append_objects_only(cont, body_part, obj_id) ==
    [cont EXCEPT !.objects = Append(@, obj_id)]

\* lines 150-151
container_append(cont, body_part, obj_id) ==
    [cont EXCEPT !.objects = Append(@, obj_id),
                 !.bodygroups = bodygroup_append(@, body_part.name, obj_id)]

\* lines 125-131 and 145-156: the sub-model is a copy of mesh_obj_original
\* that shares mesh_data_original
reuse_sub_model(st, mdl, opts, body_part, mesh_obj_original, mesh_data_original) ==
    IF st.objects[mesh_obj_original].type # "MESH"
    \* mesh_obj_original['skin_groups'] of an object without that property
    THEN [st EXCEPT !.objects = Append(@, [st.objects[mesh_obj_original] EXCEPT
                                              !.name = unique_name(names_of(st.objects), @)]),
                    !.error = "KeyError"]
    ELSE [st EXCEPT
             !.objects = Append(@, with_import_props(
                                      with_armature(
                                          [st.objects[mesh_obj_original] EXCEPT
                                              !.name = unique_name(names_of(st.objects), @),
                                              !.props.model_type = "s1",
                                              !.data = mesh_data_original],
                                          mdl, st.container.armature),
                                      mdl, opts)),
             !.container = container_append(@, body_part, Len(st.objects) + 1),
             !.reused = Append(@, Len(st.objects) + 1)]

\* lines 133-153 and 200-207: the new object of a sub-model
new_mesh_object(st, mdl, opts, mesh_name, vertices) ==
    with_import_props(
        with_armature(
            [NoObject EXCEPT
                !.name = unique_name(names_of(st.objects), mesh_name),
                !.type = "MESH",
                !.data = Len(st.meshes) + 1,
                !.props.skin_groups = mdl.skin_groups,
                !.props.active_skin = "0",
                !.props.model_type = "s1",
                !.vertex_groups =
                    IF ~mdl.static_prop
                    THEN add_weights(new_vertex_groups(<< >>, mdl.bones), mdl, vertices, 0, 1)
                    ELSE << >>],
            mdl, st.container.armature),
        mdl, opts)

\* vertices['vertex'] * scale
scaled_vertices(vertices, scale) ==
    [k \in 1..Len(vertices) |-> scaled(vertices[k].vertex, scale)]

\* lines 133, 158-198: the new mesh data of a sub-model
new_mesh_data(st, mdl, opts, model, mesh_name, vertices, vertex_indices, slots) ==
    [NoMesh EXCEPT
        !.name = unique_name(names_of(st.meshes), mesh_data_name(mdl, mesh_name)),
        !.verts = scaled_vertices(vertices, opts.scale),
        !.loops = vertex_indices,
        !.materials = slots,
        !.material_index = polygon_slots(slots, model.material_indices, mdl,
                                         opts.unique_material_names),
        !.uv_layers = <<primary_uv_layer(vertices, vertex_indices)>>
                         \o extra_uv_layers(mdl, model, vertex_indices)]

\* lines 209-245: [keys, log]
shape_keys_of(st, mdl, opts, model, verts) ==
    IF ~mdl.static_prop /\ model.flexes # << >>
    THEN apply_flexes([keys |-> with_shape_key(<< >>, <<"b", "a", "s", "e">>, verts),
                       log |-> st.log], mdl, model,
                      model.flexes, opts.scale, opts.create_drivers, verts)
    ELSE [keys |-> << >>, log |-> st.log]

\* the host after lines 133-247; drv = [mesh, texts, error]
store_sub_model(st, mdl, opts, body_part, model, ob, log, drv) ==
    [st EXCEPT
        !.objects = Append(@, ob),
        !.meshes = Append(@, drv.mesh),
        !.materials = assign_host_materials(@, unique_ids(model.material_indices), mdl,
                                            opts.unique_material_names),
        !.texts = drv.texts,
        !.container = container_append(@, body_part, Len(st.objects) + 1),
        !.log = log,
        !.error = drv.error]

\* lines 209-247; me = the mesh data, fl = [keys, log] of its shape keys
drive_sub_model(st, mdl, opts, body_part, model, ob, me, fl) ==
    store_sub_model(st, mdl, opts, body_part, model, ob, fl.log,
        IF ~mdl.static_prop /\ model.flexes # << >> /\ opts.create_drivers
        THEN create_flex_drivers([me EXCEPT !.shape_keys = fl.keys],
                                 Len(st.objects) + 1, mdl, st.texts)
        ELSE [mesh |-> [me EXCEPT !.shape_keys = fl.keys], texts |-> st.texts, error |-> ""])

\* lines 133-247: the sub-model is authored from the file
author_sub_model(st, mdl, opts, body_part, model, mesh_name, vertices) ==
    drive_sub_model(st, mdl, opts, body_part, model,
        new_mesh_object(st, mdl, opts, mesh_name, vertices),
        new_mesh_data(st, mdl, opts, model, mesh_name, vertices, reversed(model.indices),
                      assign_slots(<< >>, unique_ids(model.material_indices), mdl,
                                   opts.unique_material_names)),
        shape_keys_of(st, mdl, opts, model, scaled_vertices(vertices, opts.scale)))

\* lines 120-247 once the two lookups of lines 122-123 are made (0: not found)
place_sub_model(st, mdl, opts, body_part, model, mesh_name, mesh_obj_original, mesh_data_original) ==
    IF mesh_obj_original # 0 /\ mesh_data_original # 0
    THEN reuse_sub_model(st, mdl, opts, body_part, mesh_obj_original, mesh_data_original)
    ELSE author_sub_model(st, mdl, opts, body_part, model, mesh_name,
            take(get_slice(mdl.vertices, model.vertex_offset, model.vertex_count),
                 model.vtx_vertices))

\* lines 117-247 for one sub-model;
\* st = [objects, meshes, materials, texts, container, log, reused, error]
import_sub_model(st, mdl, opts, body_part, model) ==
    IF model.vertex_count = 0 \/ st.error # "" THEN st
    ELSE IF opts.re_use_meshes
    THEN place_sub_model(st, mdl, opts, body_part, model, mesh_name_of(body_part, model),
            find_by_name(st.objects, mesh_name_of(body_part, model)),
            find_by_name(st.meshes, mesh_lookup_name(mdl, mesh_name_of(body_part, model))))
    ELSE place_sub_model(st, mdl, opts, body_part, model, mesh_name_of(body_part, model), 0, 0)

\* the loops of lines 114-115 from sub-model m of body part b onwards
RECURSIVE import_body_parts(_, _, _, _, _)
import_body_parts(st, mdl, opts, b, m) ==
    IF b > Len(mdl.body_parts) THEN st
    ELSE IF m > Len(mdl.body_parts[b].models) THEN import_body_parts(st, mdl, opts, b + 1, 1)
    ELSE import_body_parts(
            import_sub_model(st, mdl, opts, mdl.body_parts[b], mdl.body_parts[b].models[m]),
            mdl, opts, b, m + 1)

\* lines 105-112: the host and the container before the sub-models; objs: the
\* objects after create_armature
before_body_parts(mdl, objs) ==
    [objects |-> objs, meshes |-> meshes, materials |-> materials, texts |-> texts,
     container |-> [NoContainer EXCEPT !.armature = IF ~mdl.static_prop THEN Len(objs) ELSE 0],
     log |-> << >>, reused |-> << >>, error |-> ""]

\* line 249: armature if not static_prop else container.objects[0]; 0 stands
\* for the IndexError of an empty list
attachment_target(st, mdl) ==
    IF ~mdl.static_prop THEN st.container.armature
    ELSE IF st.container.objects # << >> THEN st.container.objects[1] ELSE 0

\* lines 248-250
with_attachments(st, mdl) ==
    IF st.error # "" \/ mdl.attachments = << >> THEN st
    ELSE IF attachment_target(st, mdl) = 0 THEN [st EXCEPT !.error = "IndexError"]
    ELSE [st EXCEPT
             !.objects = create_attachments([objects |-> st.objects, attachments |-> << >>],
                                            mdl, attachment_target(st, mdl), 1).objects,
             !.container.attachments =
                 create_attachments([objects |-> st.objects, attachments |-> << >>],
                                    mdl, attachment_target(st, mdl), 1).attachments]

\* the host after import_model; the container is returned when nothing was
\* raised
return_container(f, opts, st) ==
    /\ objects' = st.objects
    /\ meshes' = st.meshes
    /\ materials' = st.materials
    /\ texts' = st.texts
    /\ container' = IF st.error = "" THEN st.container ELSE NoContainer
    /\ blend_log' = st.log
    /\ call' = [file |-> f, opts |-> opts, reused |-> st.reused, error |-> st.error,
                first_object |-> Len(objects) + 1, first_mesh |-> Len(meshes) + 1]

\* lines 89-252 for the file f with model mdl
import_file(f, opts, mdl) ==
    return_container(f, opts,
        with_attachments(
            import_body_parts(
                before_body_parts(mdl, IF ~mdl.static_prop
                                       THEN Append(objects, create_armature(objects, mdl))
                                       ELSE objects),
                mdl, opts, 1, 1),
            mdl))

\* import_model(file_list, scale, create_drivers, re_use_meshes,
\* unique_material_names) for the next request
import_model ==
    /\ requests # << >>
    /\ import_file(Head(requests).file, Head(requests).opts, files[Head(requests).file])
    /\ imports' = imports + 1
    /\ requests' = Tail(requests)
    /\ UNCHANGED <<fileVars, shaderVars, find_calls, loaders, bvlg, mat_imports, mat_call>>

(***************************************************************************)
(* Specifications                                                          *)
(***************************************************************************)
vars == <<shaderVars, fileVars, materialVars, mat_call, hostVars>>

NoCount == [x \in {} |-> 0]

\* a model file with nothing in it
EmptyMdl ==
    [name |-> <<"d", "/", "h", ".", "m">>,
     static_prop |-> FALSE,
     bones |-> << >>,
     materials |-> << >>,
     materials_paths |-> << >>,
     eyeballs |-> << >>,
     skin_groups |-> << >>,
     flex_names |-> << >>,
     flex_rules |-> << >>,
     flex_ui_controllers |-> << >>,
     flex_controllers |-> << >>,
     body_parts |-> << >>,
     attachments |-> << >>,
     vertices |-> << >>,
     extra_data |-> << >>,
     vertex_cache |-> << >>]

\* the options of an import_model call
Options(scales, drivers, reuse, unique) ==
    [scale : scales, create_drivers : drivers, re_use_meshes : reuse,
     unique_material_names : unique]

NoCall ==
    [file |-> 0,
     opts |-> [scale |-> 1, create_drivers |-> FALSE, re_use_meshes |-> FALSE,
               unique_material_names |-> FALSE],
     reused |-> << >>, error |-> "", first_object |-> 1, first_mesh |-> 1]

\* the host and the importer before anything was imported
InitHost ==
    /\ materials = [x \in {} |-> [loaded |-> FALSE, builds |-> 0]]
    /\ find_calls = NoCount
    /\ loaders = NoCount
    /\ bvlg = FALSE
    /\ mat_imports = 0
    /\ mat_call = [file |-> 0, unique_material_names |-> FALSE]
    /\ objects = << >>
    /\ meshes = << >>
    /\ texts = << >>
    /\ container = NoContainer
    /\ call = NoCall
    /\ blend_log = << >>
    /\ imports = 0

\* a shader that is not exercised
InitShaderIdle ==
    /\ vr_pc = "done"
    /\ base_result = "LOADED"
    /\ color = White
    /\ alpha_test = 0
    /\ metalness = 0
    /\ translucent = 0
    /\ glossiness = <<I(0), I(1), I(0), I(0)>>
    /\ nodes = NoNodes
    /\ links = {}
    /\ defaults = NoDefaults
    /\ blend_type = ""
    /\ blend_method = "OPAQUE"
    /\ shadow_method = "OPAQUE"

\* a shader with its material parameters read, before create_nodes; nothing
\* is imported
InitShader ==
    /\ InitHost
    /\ files = << >>
    /\ content = {}
    /\ unknown_shader = {}
    /\ requests = << >>
    /\ vr_pc = "ready"
    /\ base_result \in BaseResults
    /\ color \in Tints
    /\ alpha_test \in Flags
    /\ metalness \in Flags
    /\ translucent \in Flags
    /\ glossiness \in {<<I(0), I(1), I(0), I(0)>>}
    /\ nodes = NoNodes
    /\ links = {}
    /\ defaults = NoDefaults
    /\ blend_type = ""
    /\ blend_method \in {"OPAQUE", "BLEND"}
    /\ shadow_method = blend_method

NextShader == VRGeneric_create_nodes

SpecShader == InitShader /\ [][NextShader]_vars


\* material names: short ones, a 63-character one, and two longer ones that
\* end in it
S63 == Pad("p", 62) \o <<"a">>
MaterialNames == {<<"a">>, S63, <<"x">> \o S63}
NumMaterials == 2

InitMaterials ==
    /\ InitHost
    /\ \E ms \in [1..NumMaterials -> MaterialNames] :
          files = <<[EmptyMdl EXCEPT !.materials = ms, !.materials_paths = <<<<"m">>, <<"n">>>>,
                                     !.eyeballs = <<ms[1]>>]>>
    /\ content \in SUBSET ({<<"n">>} \X MaterialNames)
    /\ unknown_shader \in SUBSET {c[2] : c \in content}
    /\ requests = << >>
    /\ vr_pc = "ready"
    /\ base_result \in BaseResults
    /\ color = [i \in 1..4 |-> I(0)]
    /\ alpha_test = 1
    /\ metalness = 0
    /\ translucent = 0
    /\ glossiness = <<I(0), I(1), I(0), I(0)>>
    /\ nodes = NoNodes
    /\ links = {}
    /\ defaults = NoDefaults
    /\ blend_type = ""
    /\ blend_method = "OPAQUE"
    /\ shadow_method = "OPAQUE"

NextMaterials ==
    \/ \E f \in 1..Len(files) : import_materials(f)
    \/ VRGeneric_create_nodes

SpecMaterials == InitMaterials /\ [][NextMaterials]_vars

\* the importer is called request by request
NextImport == import_model

\* the files are not material files and the shader is idle
InitImporter ==
    /\ InitHost
    /\ InitShaderIdle
    /\ content = {}
    /\ unknown_shader = {}

(***************************************************************************)
(* Geometry and UV layers: one sub-model over a small vertex buffer        *)
(***************************************************************************)
\* number of vertices in the vertex buffer (vvd.lod_data[0])
VvdSize == 3

UVVals == {I(0), Rat(1, 4), I(1)}

\* vertex k of the buffer: its U tells the vertices apart
uv_vertex(k, v) ==
    [vertex |-> <<k, 0, 0>>, uv |-> <<Rat(k, 8), v>>,
     bone_id |-> <<0, 0, 0>>, weight |-> <<I(1), I(0), I(0)>>]

a_bone(name, parent) == [name |-> name, parent_bone_index |-> parent]

a_model(name, offset, cnt, vtx_vertices, indices, flexes) ==
    [name |-> name, vertex_offset |-> offset, vertex_count |-> cnt,
     vtx_vertices |-> vtx_vertices, indices |-> indices,
     material_indices |-> [k \in 1..(Len(indices) \div 3) |-> 0],
     flexes |-> flexes]

InitUV ==
    /\ InitImporter
    /\ \E vs \in [1..VvdSize -> UVVals], offset \in 0..(VvdSize - 2),
          vtx_vertices \in [1..2 -> 0..1], indices \in [1..3 -> 0..1],
          extra \in BOOLEAN, sp \in BOOLEAN :
          files = <<[EmptyMdl EXCEPT
                       !.static_prop = sp,
                       !.bones = <<a_bone(<<"r">>, -1)>>,
                       !.materials = <<<<"a">>>>,
                       !.vertices = [k \in 1..VvdSize |-> uv_vertex(k, vs[k])],
                       !.extra_data =
                           IF extra
                           THEN <<[name |-> "UV_1",
                                   uv |-> [k \in 1..VvdSize |-> <<vs[k], Rat(k, 8)>>]]>>
                           ELSE << >>,
                       !.body_parts =
                           <<[name |-> <<"b">>,
                              models |-> <<a_model(<<"m">>, offset, 2, vtx_vertices, indices, << >>)>>]>>]>>
    /\ requests \in {<<[file |-> 1, opts |-> o]>> :
                        o \in Options({1, 2}, {FALSE}, {FALSE}, {FALSE})}

SpecUV == InitUV /\ [][NextImport]_vars

\* non-empty sequences over S of length at most n
SeqsUpTo(S, n) == UNION {[1..k -> S] : k \in 1..n}

\* a vertex of the vvd file at (x, 0, 0) with its bone influences
a_vertex(x, bone_id, weight) ==
    [vertex |-> <<x, 0, 0>>, uv |-> <<I(0), I(0)>>, bone_id |-> bone_id, weight |-> weight]

\* the index array of a sub-model that uses its n vertices in file order
in_order(n) == [k \in 1..n |-> k - 1]

(***************************************************************************)
(* import_model on a skinned model with paired flexes                      *)
(***************************************************************************)
MaxFlexes == 2

\* X coordinates of the vertices: far left, near the centre, far right
Positions == {-200, -1, 0, 200}

\* model.meshes[..].flexes: flex_desc_index and partner_index into
\* mdl.flex_names ("l", "r"); partner_index 0 declares no partner
FlexDescs == [flex_desc_index : 0..1, partner_index : 0..1]

flex_file(xs, flexes) ==
    [EmptyMdl EXCEPT
        !.bones = <<a_bone(<<"r">>, -1)>>,
        !.materials = <<<<"a">>>>,
        !.flex_names = <<<<"l">>, <<"r">>>>,
        !.vertices = [k \in 1..VvdSize |-> a_vertex(xs[k], <<0, 0, 0>>, <<I(1), I(0), I(0)>>)],
        !.vertex_cache = [n \in {<<"l">>, <<"r">>} |->
                             [k \in 1..VvdSize |-> IF n = <<"l">> THEN <<1, 0, 0>> ELSE <<0, 2, 0>>]],
        !.body_parts =
            <<[name |-> <<"b">>,
               models |-> <<a_model(<<"m">>, 0, VvdSize, in_order(VvdSize), <<0, 1, 2>>, flexes)>>]>>]

InitFlex ==
    /\ InitImporter
    /\ files \in {<<flex_file(xs, flexes)>> :
                     xs \in [1..VvdSize -> Positions], flexes \in SeqsUpTo(FlexDescs, MaxFlexes)}
    /\ requests \in {<<[file |-> 1, opts |-> o]>> :
                        o \in Options({1}, BOOLEAN, {FALSE}, {FALSE})}

SpecFlex == InitFlex /\ [][NextImport]_vars

(***************************************************************************)
(* import_model on a skinned model: vertex groups                          *)
(***************************************************************************)
NumBones == 2

BoneNames == {<<"a">>, <<"b">>}

\* the bone ids and the weights of the three influence slots of a vertex
Influences ==
    {[bone_id |-> <<0, 0, 0>>, weight |-> <<I(1), I(0), I(0)>>],
     [bone_id |-> <<0, 1, 0>>, weight |-> <<Rat(1, 2), Rat(1, 2), I(0)>>],
     [bone_id |-> <<1, 0, 0>>, weight |-> <<Rat(1, 4), Rat(3, 4), I(0)>>],
     [bone_id |-> <<1, 1, 0>>, weight |-> <<I(1), I(0), I(0)>>]}

skin_file(names, infl, vtx_vertices) ==
    [EmptyMdl EXCEPT
        !.bones = [k \in 1..NumBones |-> a_bone(names[k], k - 2)],
        !.materials = <<<<"a">>>>,
        !.vertices = [k \in 1..VvdSize |-> a_vertex(k, infl[k].bone_id, infl[k].weight)],
        !.body_parts =
            <<[name |-> <<"b">>,
               models |-> <<a_model(<<"m">>, 0, VvdSize, vtx_vertices, <<0, 1, 2>>, << >>)>>]>>]

InitSkin ==
    /\ InitImporter
    /\ files \in {<<skin_file(names, infl, vtx_vertices)>> :
                     names \in [1..NumBones -> BoneNames],
                     infl \in [1..VvdSize -> Influences],
                     vtx_vertices \in {in_order(VvdSize), reversed(in_order(VvdSize))}}
    /\ requests \in {<<[file |-> 1, opts |-> o]>> :
                        o \in Options({1}, {FALSE}, BOOLEAN, {FALSE})}

SpecSkin == InitSkin /\ [][NextImport]_vars

(***************************************************************************)
(* successive import_model calls with re_use_meshes                        *)
(***************************************************************************)
MaxRequests == 2

VertexCounts == {0, 2}

\* a model "h" with the body parts "b" and "g_b", each with one sub-model "m"
first_file(static_prop, c1, c2) ==
    [EmptyMdl EXCEPT
        !.name = <<"h">>,
        !.static_prop = static_prop,
        !.bones = <<a_bone(<<"r">>, -1)>>,
        !.materials = <<<<"a">>>>,
        !.flex_names = <<<<"l">>>>,
        !.vertices = [k \in 1..VvdSize |-> a_vertex(k, <<0, 0, 0>>, <<I(1), I(0), I(0)>>)],
        !.vertex_cache = [n \in {<<"l">>} |-> [k \in 1..VvdSize |-> <<1, 0, 0>>]],
        !.body_parts =
            <<[name |-> <<"b">>,
               models |-> <<a_model(<<"m">>, 0, c1, <<0, 1>>, <<0, 1, 0>>, << >>)>>],
              [name |-> <<"g", "_", "b">>,
               models |-> <<a_model(<<"m">>, 0, c2, <<0, 1>>, <<0, 1, 0>>,
                                    <<[flex_desc_index |-> 0, partner_index |-> 0]>>)>>]>>]

\* a model "g" with the body part "b" and its sub-model "m"
second_file(static_prop) ==
    [EmptyMdl EXCEPT
        !.name = <<"g">>,
        !.static_prop = static_prop,
        !.bones = <<a_bone(<<"r">>, -1)>>,
        !.materials = <<<<"a">>>>,
        !.vertices = [k \in 1..VvdSize |-> a_vertex(k, <<0, 0, 0>>, <<I(1), I(0), I(0)>>)],
        !.body_parts =
            <<[name |-> <<"b">>,
               models |-> <<a_model(<<"m">>, 0, 2, <<0, 1>>, <<0, 1, 0>>, << >>)>>]>>]

InitReuse ==
    /\ InitImporter
    /\ files \in {<<first_file(sp1, c1, c2), second_file(sp2)>> :
                     sp1 \in BOOLEAN, sp2 \in BOOLEAN, c1 \in VertexCounts, c2 \in VertexCounts}
    /\ requests \in [1..MaxRequests ->
                        {[file |-> f, opts |-> o] :
                            f \in 1..2, o \in Options({1}, {FALSE}, BOOLEAN, BOOLEAN)}]

SpecReuse == InitReuse /\ [][NextImport]_vars

(***************************************************************************)
(* import_model and import_materials on one model: material names          *)
(***************************************************************************)
\* a model whose sub-model has two triangles, of the materials 0 and 1
names_file(ms) ==
    [EmptyMdl EXCEPT
        !.static_prop = TRUE,
        !.materials = ms,
        !.materials_paths = <<<<"m">>>>,
        !.vertices = [k \in 1..VvdSize |-> a_vertex(k, <<0, 0, 0>>, <<I(1), I(0), I(0)>>)],
        !.body_parts =
            <<[name |-> <<"b">>,
               models |-> <<[a_model(<<"m">>, 0, 2, <<0, 1>>, <<0, 1, 0, 1, 0, 1>>, << >>)
                                EXCEPT !.material_indices = <<0, 1>>]>>]>>]

InitNames ==
    /\ InitHost
    /\ InitShaderIdle
    /\ files \in {<<names_file(ms)>> : ms \in [1..NumMaterials -> MaterialNames]}
    /\ content = {<<"m">>} \X MaterialNames
    /\ unknown_shader = {}
    /\ requests \in {<<[file |-> 1, opts |-> o]>> :
                        o \in Options({1}, {FALSE}, {FALSE}, BOOLEAN)}

NextNames ==
    \/ import_model
    \/ \E f \in 1..Len(files) : import_materials(f)

SpecNames == InitNames /\ [][NextNames]_vars

(***************************************************************************)
(* import_model with create_drivers: create_flex_drivers                   *)
(***************************************************************************)
\* flex_desc_index and partner_index into mdl.flex_names ("a b", "c", "d")
DriverFlexDescs == [flex_desc_index : 0..2, partner_index : {0, 2}]

\* mdl.rebuild_flex_rules(): the flex "a b" may have a rule, and the flex "c"
\* may have one whose input has a supported or an unsupported fetch kind
RuleSets ==
    {ab \o c :
        ab \in {<< >>, <<[name |-> <<"a", " ", "b">>, inputs |-> <<<<<<"d">>, "fetch1">>>>]>>},
        c \in {<< >>} \cup
              {<<[name |-> <<"c">>, inputs |-> <<<<<<"a", " ", "b">>, kind>>>>]>> :
                  kind \in {"fetch2", "OPEN"}}}

\* mdl.flex_ui_controllers: none, one that exposes the controller "d", or one
\* that names a controller "e" the model does not have
UIControllerSets ==
    {<< >>} \cup
    {<<[name |-> c, stereo |-> FALSE, nway_controller |-> << >>,
        controller |-> c, left_controller |-> << >>, right_controller |-> << >>]>> :
        c \in {<<"d">>, <<"e">>}}

driver_file(flexes, rules, uis) ==
    [EmptyMdl EXCEPT
        !.bones = <<a_bone(<<"r">>, -1)>>,
        !.materials = <<<<"a">>>>,
        !.flex_names = <<<<"a", " ", "b">>, <<"c">>, <<"d">>>>,
        !.flex_rules = rules,
        !.flex_controllers = <<[name |-> <<"d">>, min |-> 0, max |-> 1]>>,
        !.flex_ui_controllers = uis,
        !.vertices = [k \in 1..VvdSize |-> a_vertex(k, <<0, 0, 0>>, <<I(1), I(0), I(0)>>)],
        !.vertex_cache = [n \in {<<"a", " ", "b">>, <<"c">>, <<"d">>} |->
                             [k \in 1..VvdSize |-> <<1, 0, 0>>]],
        !.body_parts =
            <<[name |-> <<"b">>,
               models |-> <<a_model(<<"m">>, 0, 2, <<0, 1>>, <<0, 1, 0>>, flexes)>>]>>]

InitDrivers ==
    /\ InitImporter
    /\ files \in {<<driver_file(flexes, rules, uis)>> :
                     flexes \in SeqsUpTo(DriverFlexDescs, MaxFlexes),
                     rules \in RuleSets, uis \in UIControllerSets}
    /\ requests = <<[file |-> 1, opts |-> [scale |-> 1, create_drivers |-> TRUE,
                                           re_use_meshes |-> FALSE,
                                           unique_material_names |-> FALSE]]>>

SpecDrivers == InitDrivers /\ [][NextImport]_vars

(***************************************************************************)
(* import_model on a skinned model: armature, vertex groups, attachments   *)
(***************************************************************************)
ArmatureBoneNames == {<<"a">>, <<"b">>, <<"x">> \o S63}

\* following parent_bone_index from bone k (1-based) ends at a root within
\* fuel steps
RECURSIVE reaches_root(_, _, _)
reaches_root(parents, k, fuel) ==
    IF parents[k] = -1 THEN TRUE
    ELSE IF fuel = 0 THEN FALSE
    ELSE reaches_root(parents, parents[k] + 1, fuel - 1)

\* the parent indices of a bone list: in range, every chain ends at a root
BoneParents ==
    {parents \in [1..NumBones -> -1..(NumBones - 1)] :
        \A k \in 1..NumBones : reaches_root(parents, k, NumBones)}

\* a skinned model with one sub-model, an attachment "t" on bone parent_bone
armature_file(names, parents, parent_bone) ==
    [skin_file(names, [k \in 1..VvdSize |-> [bone_id |-> <<0, 1, 0>>,
                                              weight |-> <<Rat(1, 2), Rat(1, 2), I(0)>>]],
               in_order(VvdSize)) EXCEPT
        !.bones = [k \in 1..NumBones |-> a_bone(names[k], parents[k])],
        !.attachments = <<[name |-> <<"t">>, parent_bone |-> parent_bone]>>]

InitArmature ==
    /\ InitImporter
    /\ files \in {<<armature_file(names, parents, parent_bone)>> :
                     names \in [1..NumBones -> ArmatureBoneNames],
                     parents \in BoneParents,
                     parent_bone \in 0..(NumBones - 1)}
    /\ requests \in {<<[file |-> 1, opts |-> o]>> :
                        o \in Options({1}, {FALSE}, BOOLEAN, {FALSE})}

SpecArmature == InitArmature /\ [][NextImport]_vars

(***************************************************************************)
(* Properties of VRGeneric.create_nodes                                    *)
(***************************************************************************)
built == vr_pc = "done" /\ base_result = "NONE"
has_mix == "color_mix" \in DOMAIN nodes
direct_link == <<"albedo", "Color", "vr_standard.vfx", "Base Color">>
alpha_link == <<"albedo", "Alpha", "vr_standard.vfx", "Alpha">>
metallic_link == <<"albedo", "Alpha", "vr_standard.vfx", "Metallic">>
in_unit_range(c) == \A i \in 1..4 : RLe(I(0), c[i]) /\ RLe(c[i], I(1))

\* C1: when a graph is built, the MULTIPLY mix node exists if and only if the
\* tint is not pure white (1,1,1,1); for pure white the albedo colour is linked
\* directly to Base Color and no mix node exists.
C1_MixIffTintNotWhite ==
    built => /\ has_mix <=> color # White
             /\ color = White => direct_link \in links /\ ~has_mix

alpha_wiring ==
    vr_pc = "done" =>
        LET a == alpha_link \in links
            m == metallic_link \in links
            out == {l \in links : l[1] = "albedo" /\ l[2] = "Alpha"}
        IN  /\ a <=> (base_result = "NONE" /\ (translucent # 0 \/ alpha_test # 0))
            /\ m <=> (base_result = "NONE" /\ translucent = 0 /\ alpha_test = 0 /\ metalness # 0)
            /\ ~(a /\ m)
            /\ Cardinality(out) <= 1
            /\ out \subseteq {alpha_link, metallic_link}

blend_mode_changes == blend_method' # blend_method \/ shadow_method' # shadow_method

\* C8 (as claimed): alpha goes to Alpha when translucent or alpha-test is set,
\* otherwise to Metallic when metalness is set, otherwise nowhere, never to
\* both; the blend mode of the host material is mutated only when the
\* translucent flag is set.
C8_BlendModeOnlyWhenTranslucent ==
    [][alpha_wiring' /\ (blend_mode_changes => translucent # 0)]_vars

\* C8 (amended): same wiring; the blend mode of the host material is mutated
\* only when the translucent flag or the alpha-test flag is set (and a graph
\* is built), and is left unchanged otherwise.
C8_BlendModeOnlyWhenAlphaToOpacity ==
    [][alpha_wiring' /\ (blend_mode_changes =>
            (base_result = "NONE" /\ (translucent # 0 \/ alpha_test # 0)))]_vars

\* C8 witness: alpha-test alone (with metalness) set the blend mode and wired
\* alpha to Alpha only.
C8_Witness ==
    /\ built /\ alpha_test # 0 /\ translucent = 0 /\ metalness # 0
    /\ blend_method = "HASHED" /\ shadow_method = "HASHED"
    /\ alpha_link \in links /\ metallic_link \notin links

(***************************************************************************)
(* Properties of import_materials                                          *)
(***************************************************************************)
count(f, k) == IF k \in DOMAIN f THEN f[k] ELSE 0
flagged_loaded(mat_name) == mat_name \in DOMAIN materials /\ materials[mat_name].loaded

\* C4: an import_materials call leaves alone every material that exists in
\* the host under its derived name and is flagged 'source1_loaded': no
\* find_material call for it, no loader constructed, the host material
\* unchanged; when that holds of all materials of the model the call changes
\* nothing, so that repeating the import is a no-op.  VRGeneric.create_nodes
\* creates no node and no link when the base reports 'LOADED' or 'UNKNOWN'.
C4_LoadedMaterialsAreSkipped ==
    [][/\ mat_imports' # mat_imports =>
            LET mdl == files[mat_call'.file]
                u == mat_call'.unique_material_names
                host(i) == material_host_name(mdl, mdl.materials[i], u)
                idx == 1..Len(mdl.materials)
            IN  /\ \A i \in idx :
                      flagged_loaded(host(i)) =>
                          /\ count(find_calls', mdl.materials[i]) = count(find_calls, mdl.materials[i])
                          /\ count(loaders', host(i)) = count(loaders, host(i))
                          /\ materials'[host(i)] = materials[host(i)]
                /\ (\A i \in idx : flagged_loaded(host(i))) =>
                      UNCHANGED <<materials, find_calls, loaders, bvlg>>
       /\ (vr_pc' # vr_pc /\ base_result \in {"LOADED", "UNKNOWN"}) =>
            UNCHANGED <<nodes, links, defaults, blend_type, blend_method, shadow_method>>
      ]_vars

\* C4 witness: after two imports of the same model a material built and
\* flagged by the first import was built once only, its file looked up by the
\* first import only, and a shader reported 'LOADED' and left an empty tree.
C4_Witness ==
    /\ mat_imports = 2
    /\ files[1].materials[1] = S63
    /\ flagged_loaded(S63)
    /\ materials[S63].builds = 1
    /\ count(loaders, S63) = 1
    /\ count(find_calls, S63) = 2
    /\ vr_pc = "done" /\ base_result = "LOADED" /\ DOMAIN nodes = {}

(***************************************************************************)
(* Properties of import_model: UV layers                                   *)
(***************************************************************************)
\* the sub-model the geometry specification imports
uv_model == files[1].body_parts[1].models[1]

\* index into the vertex buffer of the source vertex of loop l of mesh me:
\* model slice, then vtx_vertices, then the loop's vertex index
source_index(me, l) == uv_model.vertex_offset + uv_model.vtx_vertices[me.loops[l] + 1] + 1

\* C5: for every loop of every newly built mesh the primary UV layer holds
\* (U, 1 - V) of the source vertex selected through the index remap, and so
\* does every extra UV layer built from vvd.extra_data.
C5_UVVerticalFlip ==
    \A m \in 1..Len(meshes) :
        LET me == meshes[m]
            extra == files[1].extra_data
        IN  /\ Len(me.uv_layers) = 1 + Len(extra)
            /\ \A l \in 1..Len(me.loops) :
                  /\ Len(me.uv_layers[1].uv) = Len(me.loops)
                  /\ me.uv_layers[1].uv[l] =
                        <<files[1].vertices[source_index(me, l)].uv[1],
                          Rat(files[1].vertices[source_index(me, l)].uv[2].d
                                - files[1].vertices[source_index(me, l)].uv[2].n,
                              files[1].vertices[source_index(me, l)].uv[2].d)>>
                  /\ \A e \in 1..Len(extra) :
                        me.uv_layers[1 + e].uv[l] =
                            <<extra[e].uv[source_index(me, l)][1],
                              Rat(extra[e].uv[source_index(me, l)][2].d
                                    - extra[e].uv[source_index(me, l)][2].n,
                                  extra[e].uv[source_index(me, l)][2].d)>>

\* C5 witness: a mesh was built from a slice at offset 1 through a remap that
\* swaps the two vertices; a loop of it holds V = 3/4 for a source V = 1/4,
\* and an extra layer was built.
C5_Witness ==
    /\ Len(meshes) = 1
    /\ uv_model.vertex_offset = 1
    /\ uv_model.vtx_vertices = <<1, 0>>
    /\ Len(meshes[1].uv_layers) = 2
    /\ \E l \in 1..Len(meshes[1].loops) :
          /\ files[1].vertices[source_index(meshes[1], l)].uv[2] = Rat(1, 4)
          /\ meshes[1].uv_layers[1].uv[l][2] = Rat(3, 4)
          /\ meshes[1].loops[l] = 0
\* C3: for every flex with a declared partner imported with create_drivers,
\* at every vertex the primary and the partner blend weight are numbers in
\* [0, 1] and sum to exactly 1.
C3_PartnerWeightsSumToOne ==
    \A e \in 1..Len(blend_log) :
        \A k \in 1..Len(blend_log[e].balance) :
            /\ ~IsNaN(blend_log[e].balance[k])
            /\ ~IsNaN(blend_log[e].p_balance[k])
            /\ RLe(I(0), blend_log[e].balance[k]) /\ RLe(blend_log[e].balance[k], I(1))
            /\ RLe(I(0), blend_log[e].p_balance[k]) /\ RLe(blend_log[e].p_balance[k], I(1))
            /\ RAdd(blend_log[e].balance[k], blend_log[e].p_balance[k]) = I(1)
\* the vertex of the vvd file behind vertex n (0-based) of the mesh built
\* from the sub-model of the skinned file
skin_model == files[1].body_parts[1].models[1]
skin_vertex(n) ==
    files[1].vertices[skin_model.vertex_offset + skin_model.vtx_vertices[n + 1] + 1]

\* an influence slot of vertex n names bone b (1-based) with weight > 0
influenced(n, b) ==
    \E s \in 1..3 : skin_vertex(n).bone_id[s] = b - 1 /\ RLt(I(0), skin_vertex(n).weight[s])

\* C7: every mesh object returned for a skinned model has exactly one vertex
\* group per bone; vertex n is in the group of bone b exactly when one of
\* its influence slots names b with a positive weight, and the weight stored
\* is the weight of such a slot.
C7_VertexGroupsFollowInfluences ==
    (call.file # 0 /\ call.error = "" /\ ~files[call.file].static_prop) =>
        \A c \in 1..Len(container.objects) :
            LET groups == objects[container.objects[c]].vertex_groups
            IN  /\ Len(groups) = Len(files[1].bones)
                /\ \A b \in 1..Len(groups) :
                      \A n \in 0..(Len(skin_model.vtx_vertices) - 1) :
                          /\ (n \in DOMAIN groups[b].weights) <=> influenced(n, b)
                          /\ (n \in DOMAIN groups[b].weights) =>
                                \E s \in 1..3 :
                                    /\ skin_vertex(n).bone_id[s] = b - 1
                                    /\ RLt(I(0), skin_vertex(n).weight[s])
                                    /\ groups[b].weights[n] = skin_vertex(n).weight[s]
\* the objects created by the last import_model call
imported_objects == call.first_object..Len(objects)

\* C6: an import of a STATIC_PROP model creates no armature, sets
\* container.armature to nothing, gives no mesh object an armature modifier
\* or a parent, and no mesh object a vertex group or a shape key, whatever
\* the options.
C6_StaticPropHasNoSkinning ==
    (call.file # 0 /\ files[call.file].static_prop) =>
        /\ container.armature = 0
        /\ \A o \in imported_objects :
              /\ objects[o].type # "ARMATURE"
              /\ objects[o].modifiers = << >>
              /\ objects[o].parent = 0
              /\ objects[o].vertex_groups = << >>
              /\ objects[o].type = "MESH" => meshes[objects[o].data].shape_keys = << >>

\* the sub-models of a model that have vertices
RECURSIVE count_models(_, _)
count_models(body_parts, b) ==
    IF b > Len(body_parts) THEN 0
    ELSE Cardinality({m \in 1..Len(body_parts[b].models) :
                         body_parts[b].models[m].vertex_count # 0})
            + count_models(body_parts, b + 1)

\* C9: when a model is imported with re_use_meshes right after an import of
\* the same model with re_use_meshes, the second call reuses the object and
\* the mesh data of every sub-model that has vertices: it creates no mesh
\* data and authors nothing.
C9_SecondImportReusesMeshes ==
    [][(/\ requests # << >>
        /\ call.file = Head(requests).file
        /\ call.error = ""
        /\ call.opts.re_use_meshes
        /\ Head(requests).opts.re_use_meshes)
       => (/\ Len(call'.reused) = count_models(files[call.file].body_parts, 1)
           /\ meshes' = meshes)]_vars
\* the name of the driver function of a shape key: the key's name with every
\* space replaced by an underscore, followed by _driver
function_name(key_name) ==
    [k \in 1..Len(key_name) |-> IF key_name[k] = " " THEN "_" ELSE key_name[k]]
        \o <<"_", "d", "r", "i", "v", "e", "r">>

\* the shape keys of the mesh of the flexed sub-model
driven_keys == meshes[1].shape_keys

\* the driver script holds a definition of the function of the key, compiled
\* from the rule of that flex if it has one and a fallback otherwise
defined_in_script(key_name) ==
    \E d \in 1..Len(texts[1].defs) :
        /\ texts[1].defs[d].name = function_name(key_name)
        /\ texts[1].defs[d].flex = key_name
        /\ texts[1].defs[d].origin =
              IF \E k \in 1..Len(files[1].flex_rules) : files[1].flex_rules[k].name = key_name
              THEN "rule" ELSE "controller"

\* C10: when create_flex_drivers returns normally on an object with shape
\* keys, every key but 'base' has one SCRIPTED driver whose expression is
\* '<name with underscores for spaces>_driver(obj_data)' with the single
\* variable obj_data targeting the object's data, the driver script written
\* to the host defines that function (from the rule of the flex if it has
\* one, from a fallback otherwise), and 'base' has no driver.
C10_EveryKeyHasItsDriver ==
    (call.file # 0 /\ call.error = "" /\ call.opts.create_drivers) =>
        /\ Len(meshes) = 1 /\ driven_keys # << >>
        /\ Len(texts) = 1
        /\ \A k \in 1..Len(driven_keys) :
              IF driven_keys[k].name = <<"b", "a", "s", "e">>
              THEN driven_keys[k].driver = NoDriver
              ELSE /\ driven_keys[k].driver.type = "SCRIPTED"
                   /\ driven_keys[k].driver.expression =
                         function_name(driven_keys[k].name)
                            \o <<"(", "o", "b", "j", "_", "d", "a", "t", "a", ")">>
                   /\ Len(driven_keys[k].driver.variables) = 1
                   /\ driven_keys[k].driver.variables[1].name = "obj_data"
                   /\ driven_keys[k].driver.variables[1].id_type = "OBJECT"
                   /\ driven_keys[k].driver.variables[1].data_path = "data"
                   /\ objects[driven_keys[k].driver.variables[1].id].type = "MESH"
                   /\ objects[driven_keys[k].driver.variables[1].id].data = 1
                   /\ defined_in_script(driven_keys[k].name)

\* C10 witness: create_flex_drivers returned normally on a mesh that has the
\* keys 'base', 'a b' (a flex with a compiled rule) and 'c' (a flex without
\* one); 'a b' is driven by a_b_driver(obj_data) and both functions are in
\* the script.
C10_Witness ==
    /\ call.file # 0 /\ call.error = "" /\ call.opts.create_drivers
    /\ Len(texts) = 1
    /\ \E k \in 1..Len(files[1].flex_rules) : files[1].flex_rules[k].name = <<"a", " ", "b">>
    /\ ~ \E k \in 1..Len(files[1].flex_rules) : files[1].flex_rules[k].name = <<"c">>
    /\ \E k \in 1..Len(driven_keys) :
          /\ driven_keys[k].name = <<"a", " ", "b">>
          /\ driven_keys[k].driver.expression =
                <<"a", "_", "b", "_", "d", "r", "i", "v", "e", "r",
                  "(", "o", "b", "j", "_", "d", "a", "t", "a", ")">>
    /\ \E k \in 1..Len(driven_keys) : driven_keys[k].name = <<"c">>
    /\ \E d \in 1..Len(texts[1].defs) :
          texts[1].defs[d].name = <<"c", "_", "d", "r", "i", "v", "e", "r">>
          /\ texts[1].defs[d].origin = "controller"
    /\ \E d \in 1..Len(texts[1].defs) :
          texts[1].defs[d].name = <<"a", "_", "b", "_", "d", "r", "i", "v", "e", "r">>
          /\ texts[1].defs[d].origin = "rule"
\* a compiled rule of the model has an input whose fetch kind is none of
\* fetch1, 2WAY1, 2WAY0, NWAY, DUE, fetch2
unsupported_rule ==
    \E k \in 1..Len(files[1].flex_rules) :
        \E i \in 1..Len(files[1].flex_rules[k].inputs) :
            files[1].flex_rules[k].inputs[i][2]
                \notin {"fetch1", "2WAY1", "2WAY0", "NWAY", "DUE", "fetch2"}

\* every flex UI controller names a flex controller of the model
controllers_resolve ==
    \A u \in 1..Len(files[1].flex_ui_controllers) :
        \E c \in 1..Len(files[1].flex_controllers) :
            files[1].flex_controllers[c].name = files[1].flex_ui_controllers[u].controller

\* no shape key of any mesh has a driver and the host has no driver script
nothing_driven ==
    /\ texts = << >>
    /\ \A m \in 1..Len(meshes) :
          \A k \in 1..Len(meshes[m].shape_keys) : meshes[m].shape_keys[k].driver = NoDriver

ruled(key_name) ==
    \E k \in 1..Len(files[1].flex_rules) : files[1].flex_rules[k].name = key_name

\* C12: when the rules compile and the UI controllers resolve, the call
\* completes and every key but 'base' whose flex has no rule receives its
\* driver and a fallback function in the driver script, built either from
\* the existing controllers its name is made of or from a new controller of
\* that name with the range [0, 1].
C12_FallbackAlwaysCompletes ==
    (call.file # 0 /\ call.opts.create_drivers /\ ~unsupported_rule /\ controllers_resolve) =>
        /\ call.error = ""
        /\ Len(texts) = 1
        /\ \A k \in 1..Len(driven_keys) :
              (driven_keys[k].name # <<"b", "a", "s", "e">> /\ ~ruled(driven_keys[k].name)) =>
                  /\ driven_keys[k].driver.type = "SCRIPTED"
                  /\ \E d \in 1..Len(texts[1].defs) :
                        /\ texts[1].defs[d].name = function_name(driven_keys[k].name)
                        /\ texts[1].defs[d].origin # "rule"
\* the material slots of the meshes import_model built
slot_names == UNION {{meshes[m].materials[k] : k \in 1..Len(meshes[m].materials)} :
                        m \in 1..Len(meshes)}

\* C13: every host name of a material has at most 63 characters, with or
\* without the unique_material_names prefix, and the name import_model gives
\* a material slot is the name under which import_materials creates or
\* looks up that material when both run with the same setting.
C13_MaterialNamesAgree ==
    /\ \A n \in DOMAIN materials : Len(n) <= 63
    /\ \A n \in slot_names : Len(n) <= 63 /\ n \in DOMAIN materials
    /\ (/\ call.file # 0 /\ mat_imports = 1 /\ mat_call.file = call.file
        /\ mat_call.unique_material_names = call.opts.unique_material_names)
       => /\ slot_names \subseteq DOMAIN loaders
          /\ \A n \in slot_names : materials[n].builds >= 1

\* C13 witness: both ran with unique_material_names on a model 'h' with the
\* materials 'a' and a 64-character name; the slots are 'h_a' and the last
\* 63 characters of the long name (the prefix is cut away), and both were
\* built by import_materials under these names.
C13_Witness ==
    /\ call.file # 0 /\ mat_imports = 1
    /\ call.opts.unique_material_names /\ mat_call.unique_material_names
    /\ files[1].materials[1] = <<"a">>
    /\ files[1].materials[2] = <<"x">> \o S63
    /\ slot_names = {<<"h", "_", "a">>, S63}
    /\ DOMAIN loaders = {<<"h", "_", "a">>, S63}
    /\ materials[S63].builds = 1
\* the body parts of the model of the last call, and per body part name the
\* number of its sub-models that have vertices
called_parts == files[call.file].body_parts
models_under(name) ==
    count_models([b \in 1..Len(called_parts) |->
                     IF called_parts[b].name = name THEN called_parts[b]
                     ELSE [name |-> called_parts[b].name, models |-> << >>]], 1)

\* the elements of a sequence, and whether it repeats none
elements(seq) == {seq[k] : k \in 1..Len(seq)}
no_repeats(seq) == Cardinality(elements(seq)) = Len(seq)

\* C14: after an import, exactly the sub-models that have vertices produced
\* a mesh object, one each, built or reused; each is once in
\* container.objects and once in the bodygroup list of its body part's name;
\* a sub-model without vertices produced neither an object nor mesh data;
\* container.objects is the union of the bodygroup lists.
C14_OneObjectPerSubModel ==
    (call.file # 0 /\ call.error = "") =>
        /\ Len(container.objects) = count_models(called_parts, 1)
        /\ no_repeats(container.objects)
        /\ elements(container.objects) = {o \in imported_objects : objects[o].type = "MESH"}
        /\ Len(meshes) - call.first_mesh + 1 = count_models(called_parts, 1) - Len(call.reused)
        /\ DOMAIN container.bodygroups =
              {called_parts[b].name : b \in {x \in 1..Len(called_parts) :
                                                models_under(called_parts[x].name) > 0}}
        /\ \A name \in DOMAIN container.bodygroups :
              /\ Len(container.bodygroups[name]) = models_under(name)
              /\ no_repeats(container.bodygroups[name])
        /\ elements(container.objects) =
              UNION {elements(container.bodygroups[name]) : name \in DOMAIN container.bodygroups}
        /\ \A n1, n2 \in DOMAIN container.bodygroups :
              n1 # n2 => elements(container.bodygroups[n1]) \cap elements(container.bodygroups[n2]) = {}

\* C14 witness: an import reused the cached object and mesh data for its one
\* sub-model: the copy is the only object of the container, it is filed
\* under 'b', and no mesh data was created.
C14_Witness ==
    /\ call.file = 2 /\ call.error = ""
    /\ Len(call.reused) = 1
    /\ container.objects = call.reused
    /\ DOMAIN container.bodygroups = {<<"b">>}
    /\ container.bodygroups[<<"b">>] = call.reused
    /\ meshes # << >> /\ Len(meshes) = call.first_mesh - 1
\* the X coordinate of vertex k of the flexed sub-model, and the width of a
\* ramp derived from the extent of the sub-model along X only
flex_x(k) == files[1].vertices[k].vertex[1]
x_width ==
    LET X == {flex_x(k) : k \in 1..VvdSize}
    IN  RMul(I((CHOOSE x \in X : \A y \in X : y <= x) - (CHOOSE x \in X : \A y \in X : x <= y)),
             Rat(7, 1000))

\* the shape key of that name on the mesh of the flexed sub-model
key_named(name) == meshes[1].shape_keys[find_by_name(meshes[1].shape_keys, name)]

\* C15: for every flex with a partner imported with create_drivers, the
\* primary weight of a vertex is the ramp 1/2 - X / (2 * width) clipped to
\* [0, 1], with the width derived from the extent along X only, and after
\* the import the primary key holds base + delta * weight and the partner
\* key base + delta * (1 - weight) at every vertex.
C15_BalanceRampAlongX ==
    \A e \in 1..Len(blend_log) :
        \A k \in 1..VvdSize :
            /\ blend_log[e].balance[k] = balance_of(flex_x(k), x_width)
            /\ key_named(blend_log[e].flex).co[k] =
                  blend(files[1].vertex_cache[blend_log[e].flex][k], blend_log[e].balance[k],
                        files[1].vertices[k].vertex)
            /\ key_named(blend_log[e].partner).co[k] =
                  blend(files[1].vertex_cache[blend_log[e].flex][k],
                        partner_balance(blend_log[e].balance[k]),
                        files[1].vertices[k].vertex)
\* the bones of the armature the last import_model call returned
armature_bones == objects[container.armature].bones

\* the local transforms of bone k (1-based) of the file and of its ancestors,
\* from the root down
RECURSIVE local_transforms(_, _)
local_transforms(k, fuel) ==
    IF files[1].bones[k].parent_bone_index = -1 \/ fuel = 0 THEN <<k>>
    ELSE local_transforms(files[1].bones[k].parent_bone_index + 1, fuel - 1) \o <<k>>

skinned_import == call.file # 0 /\ call.error = "" /\ ~files[call.file].static_prop

\* C16: after create_armature a bone with parent index -1 has no parent and
\* any other bone has the bone at that index as its parent, and the matrix
\* of every bone is the product, from the root down, of the local
\* transforms of its ancestors and of itself, whether parents come before
\* or after their children in the bone list.
C16_PoseMatricesComposeFromRoot ==
    skinned_import =>
        \A k \in 1..Len(files[1].bones) :
            /\ armature_bones[k].parent = files[1].bones[k].parent_bone_index + 1
            /\ armature_bones[k].matrix = local_transforms(k, Len(files[1].bones))
\* the mesh objects and the attachment empties the last import_model call
\* returned
skinned_meshes == {container.objects[c] : c \in 1..Len(container.objects)}
attachment_empties == {container.attachments[c] : c \in 1..Len(container.attachments)}

\* C17: for every bone of a skinned model the armature bone, the vertex
\* group of every mesh object and the CHILD_OF subtarget of every attachment
\* on that bone carry the same name, so every vertex group and every
\* constraint names an existing armature bone, also with bone names longer
\* than 63 characters and with duplicate bone names.
C17_BoneNamesAgree ==
    skinned_import =>
        /\ \A b \in 1..Len(files[1].bones) :
              /\ \A o \in skinned_meshes :
                    objects[o].vertex_groups[b].name = armature_bones[b].name
              /\ \A a \in 1..Len(files[1].attachments) :
                    files[1].attachments[a].parent_bone = b - 1 =>
                        \A c \in 1..Len(objects[container.attachments[a]].constraints) :
                            objects[container.attachments[a]].constraints[c].subtarget =
                                armature_bones[b].name
        /\ \A o \in skinned_meshes :
              \A g \in 1..Len(objects[o].vertex_groups) :
                  objects[o].vertex_groups[g].name \in names_of(armature_bones)
        /\ \A o \in attachment_empties :
              \A c \in 1..Len(objects[o].constraints) :
                  objects[o].constraints[c].subtarget \in names_of(armature_bones)
====
